---- MODULE Spec2Model ----
(***************************************************************************)
(* A model of o365_drive.O365Drive: the column-label conversion            *)
(* (__convert_header_name), the chunked range writer (__df_to_excel and    *)
(* __insert_data) and the worksheet lifecycle operations (create, rename,  *)
(* delete, blank, update_excel_data) against a remote workbook.            *)
(*                                                                         *)
(* Every remote call that changes the workbook is one step, so the states  *)
(* between two calls of one method are states of the model.  The program   *)
(* is single-threaded: a method runs to its return before the next starts. *)
(***************************************************************************)
EXTENDS Integers, Sequences, FiniteSets, TLC

VARIABLES
    sheets,     \* the remote workbook: the worksheets, in workbook order,
                \* each [id, name, cells]; cells is a set of <<row, col, value>>
    nextId,     \* the id the remote gives the next worksheet it adds
    pc,         \* the position of the running method ("idle": none runs)
    args,       \* the running method and its arguments
    fr,         \* the locals of __df_to_excel
    calls,      \* the workbook calls (rename, add, delete, clear) the running method issued
    writes,     \* the __insert_data calls the running method issued
    result,     \* how the running method ended: "none", "ok" or "error"
    pre,        \* the workbook as it was when the running method was called
    n0,         \* __convert_header_name: the argument n
    n,          \* __convert_header_name: the loop variable n
    string      \* __convert_header_name: the local string

vars == <<sheets, nextId, pc, args, fr, calls, writes, result, pre, n0, n, string>>

----------------------------------------------------------------------------
(* Bounds of the model *)

\* the largest column index given to __convert_header_name on its own
MaxIndex == 710
\* the most columns of a table
MaxCols == 2
\* the most data rows of a table given to __df_to_excel on its own
MaxDataRows == 6
\* the largest chunk given to __df_to_excel on its own
MaxChunk == 4
\* the most data rows of a table given to update_excel_data
MaxUpdRows == 2
\* the last worksheet id the remote hands out
MaxId == 5

----------------------------------------------------------------------------
(* Program constants *)

\* divmod(n - 1, 26)
Base == 26
\* def __df_to_excel(self, df, ws_instance, chunk=1000)
DefaultChunk == 1000
\* get_worksheet's "return None", as a position in the list of worksheets
None == 0

\* chr(65 + remainder) for remainder in 0..25
Alphabet ==
    << "A", "B", "C", "D", "E", "F", "G", "H", "I", "J", "K", "L", "M",
       "N", "O", "P", "Q", "R", "S", "T", "U", "V", "W", "X", "Y", "Z" >>

\* temp_name = sheet_name + "__temp__"
temp_name(sheet_name) == sheet_name \o "__temp__"

Min(S) == CHOOSE x \in S : \A y \in S : x <= y
Max(S) == CHOOSE x \in S : \A y \in S : x >= y

----------------------------------------------------------------------------
(* __convert_header_name *)

\* header_step with divmod(n, 26) for divmod(n - 1, 26)
header_step_divmod_n(m, s) ==
    [n |-> m \div Base, string |-> <<Alphabet[(m % Base) + 1]>> \o s]

\* one pass of the while loop: n, remainder = divmod(n - 1, 26);
\* string = chr(65 + remainder) + string
header_step(m, s) ==
    [n |-> (m - 1) \div Base, string |-> <<Alphabet[((m - 1) % Base) + 1]>> \o s]

RECURSIVE header_loop(_, _)
header_loop(m, s) ==
    IF m > 0 THEN header_loop(header_step(m, s).n, header_step(m, s).string)
    ELSE s

\* string = ""; while n > 0: ...; return string
convert_header_name(m) == header_loop(m, <<>>)

\* the letter's digit: A = 1 .. Z = 26 (0 for anything else)
LetterDigit(ch) ==
    IF \E k \in 1..Base : Alphabet[k] = ch
    THEN CHOOSE k \in 1..Base : Alphabet[k] = ch
    ELSE 0

\* a label read as a number in base 26 with the digits A = 1 .. Z = 26
RECURSIVE LabelValue(_)
LabelValue(s) ==
    IF s = <<>> THEN 0
    ELSE LabelValue(SubSeq(s, 1, Len(s) - 1)) * Base + LetterDigit(s[Len(s)])

----------------------------------------------------------------------------
(* The remote workbook, as the O365 calls of the class use it *)

\* a worksheet the remote has just added: no cell holds a value
new_worksheet(id, name) == [id |-> id, name |-> name, cells |-> {}]

\* an entry of calls: the call, the worksheet's id and name, and the number of
\* worksheets the workbook held when the call was issued
Call(call, id, name, count) == [call |-> call, id |-> id, name |-> name, count |-> count]

\* what a method did: the workbook after it, the next free id, the calls it
\* issued and whether a remote call raised
Effect(wb, id, issued, err) == [wb |-> wb, nextId |-> id, issued |-> issued, err |-> err]

\* wb_instance.add_worksheet(sheet_name): the new worksheet comes last
wb_add_worksheet(wb, id, sheet_name) == Append(wb, new_worksheet(id, sheet_name))

\* wb_instance.delete_worksheet(ws.object_id): the remote refuses to delete
\* the last worksheet of a workbook
wb_delete_worksheet(wb, id) ==
    IF Len(wb) > 1
    THEN [wb |-> SelectSeq(wb, LAMBDA ws : ws.id # id), err |-> FALSE]
    ELSE [wb |-> wb, err |-> TRUE]

\* ws.update(name=new_name) on worksheet number k: the remote refuses a name
\* another worksheet of the workbook has
ws_update_name(wb, k, new_name) ==
    IF \E j \in 1..Len(wb) : j # k /\ wb[j].name = new_name
    THEN [wb |-> wb, err |-> TRUE]
    ELSE [wb |-> [wb EXCEPT ![k].name = new_name], err |-> FALSE]

\* ws_instance.get_used_range(): the smallest rectangle holding every cell
\* with a value (A1 for an empty worksheet)
used_range(cells) ==
    IF cells = {} THEN [row_start |-> 1, row_end |-> 1, c1 |-> 1, c2 |-> 1]
    ELSE [row_start |-> Min({t[1] : t \in cells}), row_end |-> Max({t[1] : t \in cells}),
          c1 |-> Min({t[2] : t \in cells}), c2 |-> Max({t[2] : t \in cells})]

\* range_data.clear(): no cell of the rectangle keeps its value
range_clear(cells, box) ==
    {t \in cells : ~(/\ box.row_start <= t[1] /\ t[1] <= box.row_end
                     /\ box.c1 <= t[2] /\ t[2] <= box.c2)}

----------------------------------------------------------------------------
(* The worksheet methods *)

\* [ws.name for ws in wss]
ws_names(wb) == {wb[k].name : k \in 1..Len(wb)}

worksheet_is_exist(wb, sheet_name) == sheet_name \in ws_names(wb)

\* the first worksheet of that name (its position), or None
get_worksheet(wb, sheet_name) ==
    LET hits == {k \in 1..Len(wb) : wb[k].name = sheet_name}
    IN  IF hits = {} THEN None ELSE Min(hits)

get_worsheet_count(wb) == Len(wb)

\* the id of the worksheet of that name, or None
id_of(wb, sheet_name) ==
    IF get_worksheet(wb, sheet_name) = None THEN None
    ELSE wb[get_worksheet(wb, sheet_name)].id

\* the position of the worksheet with that id, or None
pos_of(wb, id) ==
    IF \E k \in 1..Len(wb) : wb[k].id = id
    THEN CHOOSE k \in 1..Len(wb) : wb[k].id = id
    ELSE None

create_worksheet(wb, id, sheet_name) ==
    IF ~worksheet_is_exist(wb, sheet_name)
    THEN Effect(wb_add_worksheet(wb, id, sheet_name), id + 1,
                <<Call("add", id, sheet_name, Len(wb))>>, FALSE)
    ELSE Effect(wb, id, <<>>, FALSE)

rename_worksheet(wb, id, old_name, new_name) ==
    LET k == get_worksheet(wb, old_name)
    IN  IF k # None
        THEN Effect(ws_update_name(wb, k, new_name).wb, id,
                    <<Call("rename", wb[k].id, new_name, Len(wb))>>,
                    ws_update_name(wb, k, new_name).err)
        ELSE Effect(wb, id, <<>>, FALSE)

\* delete_worksheet without the count of the worksheets
delete_worksheet_uncounted(wb, id, sheet_name) ==
    LET k == get_worksheet(wb, sheet_name)
    IN  IF k # None
        THEN Effect(wb_delete_worksheet(wb, wb[k].id).wb, id,
                    <<Call("delete", wb[k].id, sheet_name, Len(wb))>>,
                    wb_delete_worksheet(wb, wb[k].id).err)
        ELSE Effect(wb, id, <<>>, FALSE)

delete_worksheet(wb, id, sheet_name) ==
    LET k == get_worksheet(wb, sheet_name)
    IN  IF k # None /\ get_worsheet_count(wb) > 1
        THEN Effect(wb_delete_worksheet(wb, wb[k].id).wb, id,
                    <<Call("delete", wb[k].id, sheet_name, Len(wb))>>,
                    wb_delete_worksheet(wb, wb[k].id).err)
        ELSE Effect(wb, id, <<>>, FALSE)

\* wb_instance.get_worksheet(sheet_name) raises when the workbook has no
\* worksheet of that name
delete_ws_used_range(wb, id, sheet_name) ==
    LET k == get_worksheet(wb, sheet_name)
    IN  IF k = None THEN Effect(wb, id, <<>>, TRUE)
        ELSE Effect([wb EXCEPT ![k].cells = range_clear(@, used_range(@))], id,
                    <<Call("clear", wb[k].id, sheet_name, Len(wb))>>, FALSE)

\* blank_recreate_steps deleting the temp worksheet before creating the new one
blank_recreate_steps_delete_first == <<"rename", "delete", "create">>

\* blank_recreate_steps leaving the temp worksheet behind
blank_recreate_steps_no_delete == <<"rename", "create">>

\* the calls of blank_worksheet on an existing worksheet with create_new_ws,
\* in program order
blank_recreate_steps == <<"rename", "create", "delete">>

\* blank_worksheet(wb_instance, sheet_name, create_new_ws=True) in update_excel_data
update_create_new_ws == TRUE

----------------------------------------------------------------------------
(* __df_to_excel and __insert_data *)

\* data = [df.columns.values.tolist()] + df.values.tolist(): row 1 is the
\* header; the value of row r, column c is written <<r, c>>
df_data(n_col, n_data) == [r \in 1..(n_data + 1) |-> [c \in 1..n_col |-> <<r, c>>]]

\* ceil_div rounding down: n_row // chunk
ceil_div_floor(a, b) == a \div b

\* math.ceil(n_row / chunk), for chunk >= 1 and 0 <= n_row < 2^53 (the quotient is a float)
ceil_div(a, b) == (a + b - 1) \div b

\* the locals of __df_to_excel as the body starts (lines 123-130)
df_locals(ws_id, n_col, n_data, chunk) ==
    [ws_id |-> ws_id, n_col |-> n_col, n_row |-> n_data + 1, chunk |-> chunk,
     n_iter |-> ceil_div(n_data + 1, chunk),
     col_name |-> convert_header_name(n_col),
     row_start |-> 1, row_end |-> chunk, i |-> 0]

\* clip_row_end without the clipping
clip_row_end_never(n_row, row_end) == row_end

\* row_end = n_row if n_row < row_end else row_end
clip_row_end(n_row, row_end) == IF n_row < row_end THEN n_row ELSE row_end

\* the row_end the next __insert_data call is given: n_row in the one-shot
\* branch, the clipped row_end in the loop
next_row_end(f) ==
    IF f.n_iter < 2 THEN f.n_row ELSE clip_row_end(f.n_row, f.row_end)

\* the locals after that call returned: the one-shot branch is over, the loop
\* does row_start += chunk; row_end += chunk and goes to the next i
after_insert(f) ==
    IF f.n_iter < 2 THEN [f EXCEPT !.i = f.n_iter]
    ELSE [f EXCEPT !.row_start = f.row_start + f.chunk,
                   !.row_end = next_row_end(f) + f.chunk,
                   !.i = f.i + 1]

\* whether __df_to_excel has a further call to make
df_more(f) == f.i < f.n_iter

\* data[a:b] of Python: the elements a+1 .. b (counted from 1), as far as
\* the list goes
PySlice(data, a, b) ==
    LET stop == IF b < Len(data) THEN b ELSE Len(data)
    IN  [j \in 1..(IF stop > a THEN stop - a ELSE 0) |-> data[a + j]]

\* f"{col_start}{row_start}:{col_end}{row_end}"
range_addr(col_start, col_end, row_start, row_end) ==
    [col_start |-> col_start, row_start |-> row_start,
     col_end |-> col_end, row_end |-> row_end]

\* insert_data slicing data[row_start:row_end]
insert_data_slice_from_row_start(data, col_start, col_end, row_start, row_end) ==
    [addr |-> range_addr(col_start, col_end, row_start, row_end),
     values |-> PySlice(data, row_start, row_end)]

\* the call __insert_data makes: get_range(address), values = data[row_start-1:row_end]
insert_data(data, col_start, col_end, row_start, row_end) ==
    [addr |-> range_addr(col_start, col_end, row_start, row_end),
     values |-> PySlice(data, row_start - 1, row_end)]

\* the __insert_data call __df_to_excel makes next
df_next_insert(f) ==
    insert_data(df_data(f.n_col, f.n_row - 1), <<"A">>, f.col_name,
                f.row_start, next_row_end(f))

\* the remote takes a range update when the address names a rectangle and
\* the values fill it: one list per row, one value per column
range_accepts(w) ==
    /\ w.addr.col_start # <<>> /\ w.addr.col_end # <<>>
    /\ LabelValue(w.addr.col_start) <= LabelValue(w.addr.col_end)
    /\ 1 <= w.addr.row_start /\ w.addr.row_start <= w.addr.row_end
    /\ Len(w.values) = w.addr.row_end - w.addr.row_start + 1
    /\ \A j \in 1..Len(w.values) :
           Len(w.values[j]) = LabelValue(w.addr.col_end) - LabelValue(w.addr.col_start) + 1

\* range_insert.update(): the cells of the rectangle take the values
range_update(cells, w) ==
    LET c0 == LabelValue(w.addr.col_start)
        box == [row_start |-> w.addr.row_start, row_end |-> w.addr.row_end,
                c1 |-> c0, c2 |-> LabelValue(w.addr.col_end)]
    IN  range_clear(cells, box) \cup
        {<<w.addr.row_start + j - 1, c0 + k - 1, w.values[j][k]>> :
            j \in 1..Len(w.values), k \in 1..(box.c2 - c0 + 1)}

----------------------------------------------------------------------------
(* The state between two methods, and the inputs *)

\* the names the methods are called with
ArgNames == {"Data", temp_name("Data")}

\* the cells a worksheet may hold before the program touches it
OldCells == {<<1, 1, "old">>, <<9, 9, "old">>}

\* the workbooks the program may find: one or two worksheets
InitBooks ==
    {<<[id |-> 1, name |-> a, cells |-> ca]>> :
        a \in {"Data", "Other"}, ca \in {{}, OldCells}}
    \cup
    {<<[id |-> 1, name |-> a[1], cells |-> ca], [id |-> 2, name |-> a[2], cells |-> cb]>> :
        a \in {<<"Data", "Other">>, <<"Other", "Data">>},
        ca \in {{}, OldCells}, cb \in {{}, OldCells}}

NoArgs ==
    [op |-> "none", sheet_name |-> "", new_name |-> "", create_new_ws |-> FALSE,
     n_col |-> 0, n_data |-> 0, ws_id |-> None, k |-> 0]

NoFrame == df_locals(None, 0, 0, 1)

\* the variables of __convert_header_name while no call of it runs
HeaderIdle == n0 = 0 /\ n = 0 /\ string = <<>>

Init ==
    /\ sheets \in InitBooks
    /\ nextId = Len(sheets) + 1
    /\ pc = "idle"
    /\ args = NoArgs
    /\ fr = NoFrame
    /\ calls = <<>>
    /\ writes = <<>>
    /\ result = "none"
    /\ pre = <<>>
    /\ HeaderIdle

\* a method is called (calls and writes are empty while none runs): its
\* arguments bound, the workbook remembered
Enter(a) ==
    /\ pc = "idle"
    /\ args' = a
    /\ pre' = sheets

\* a method takes the effect e of one of its calls and goes on at position p
\* (or ends at once with the error the call raised)
Take(e, p) ==
    /\ sheets' = e.wb
    /\ nextId' = e.nextId
    /\ calls' = calls \o e.issued
    /\ pc' = IF e.err THEN "ret" ELSE p
    /\ result' = IF e.err THEN "error" ELSE IF p = "ret" THEN "ok" ELSE result

----------------------------------------------------------------------------
(* create_worksheet, rename_worksheet, delete_worksheet *)

CreateWorksheet ==
    \E sheet_name \in ArgNames :
        /\ nextId <= MaxId
        /\ Enter([NoArgs EXCEPT !.op = "create_worksheet", !.sheet_name = sheet_name])
        /\ Take(create_worksheet(sheets, nextId, sheet_name), "ret")
        /\ UNCHANGED <<fr, writes, n0, n, string>>

RenameWorksheet ==
    \E old_name \in ArgNames \cup {"Other"}, new_name \in ArgNames :
        /\ Enter([NoArgs EXCEPT !.op = "rename_worksheet", !.sheet_name = old_name,
                                !.new_name = new_name])
        /\ Take(rename_worksheet(sheets, nextId, old_name, new_name), "ret")
        /\ UNCHANGED <<fr, writes, n0, n, string>>

DeleteWorksheet ==
    \E sheet_name \in ArgNames \cup {"Other"} :
        /\ Enter([NoArgs EXCEPT !.op = "delete_worksheet", !.sheet_name = sheet_name])
        /\ Take(delete_worksheet(sheets, nextId, sheet_name), "ret")
        /\ UNCHANGED <<fr, writes, n0, n, string>>

\* the method returns to its caller
Return ==
    /\ pc = "ret"
    /\ pc' = "idle"
    /\ args' = NoArgs
    /\ fr' = NoFrame
    /\ calls' = <<>>
    /\ writes' = <<>>
    /\ result' = "none"
    /\ pre' = <<>>
    /\ UNCHANGED <<sheets, nextId, n0, n, string>>

----------------------------------------------------------------------------
(* blank_worksheet *)

\* where the caller of blank_worksheet goes on: update_excel_data fetches the
\* worksheet next, a direct call returns
after_blank(op) == IF op = "update_excel_data" THEN "upd_get_ws" ELSE "ret"

\* blank_worksheet is called: ws = self.get_worksheet(wb_instance, sheet_name)
BlankWorksheet ==
    \E sheet_name \in ArgNames, create_new_ws \in BOOLEAN :
        /\ nextId <= MaxId
        /\ Enter([NoArgs EXCEPT !.op = "blank_worksheet", !.sheet_name = sheet_name,
                                !.create_new_ws = create_new_ws,
                                !.ws_id = id_of(sheets, sheet_name), !.k = 1])
        /\ pc' = "blank"
        /\ UNCHANGED <<sheets, nextId, fr, calls, writes, result, n0, n, string>>

\* the position after step k of the recreate branch
after_step(a) ==
    IF a.k < Len(blank_recreate_steps) THEN "blank" ELSE after_blank(a.op)

\* the recreate branch is at the step named what
AtStep(what) ==
    /\ pc = "blank"
    /\ args.ws_id # None
    /\ args.create_new_ws
    /\ args.k <= Len(blank_recreate_steps)
    /\ blank_recreate_steps[args.k] = what
    /\ args' = [args EXCEPT !.k = args.k + 1]

\* ws.update(name=temp_name), on the worksheet blank_worksheet fetched
BlankRename ==
    /\ AtStep("rename")
    /\ LET k == pos_of(sheets, args.ws_id)
           r == ws_update_name(sheets, k, temp_name(args.sheet_name))
       IN  Take(Effect(r.wb, nextId,
                       <<Call("rename", args.ws_id, temp_name(args.sheet_name), Len(sheets))>>,
                       r.err),
                after_step(args))
    /\ UNCHANGED <<fr, writes, pre, n0, n, string>>

\* self.create_worksheet(wb_instance, sheet_name)
BlankCreate ==
    /\ AtStep("create")
    /\ Take(create_worksheet(sheets, nextId, args.sheet_name), after_step(args))
    /\ UNCHANGED <<fr, writes, pre, n0, n, string>>

\* self.delete_worksheet(wb_instance, temp_name)
BlankDelete ==
    /\ AtStep("delete")
    /\ Take(delete_worksheet(sheets, nextId, temp_name(args.sheet_name)), after_step(args))
    /\ UNCHANGED <<fr, writes, pre, n0, n, string>>

\* create_new_ws is false: self.delete_ws_used_range(wb_instance, sheet_name)
BlankClear ==
    /\ pc = "blank"
    /\ args.ws_id # None
    /\ ~args.create_new_ws
    /\ Take(delete_ws_used_range(sheets, nextId, args.sheet_name), after_blank(args.op))
    /\ UNCHANGED <<args, fr, writes, pre, n0, n, string>>

\* ws is None: self.create_worksheet(wb_instance, sheet_name)
BlankCreateMissing ==
    /\ pc = "blank"
    /\ args.ws_id = None
    /\ Take(create_worksheet(sheets, nextId, args.sheet_name), after_blank(args.op))
    /\ UNCHANGED <<args, fr, writes, pre, n0, n, string>>

----------------------------------------------------------------------------
(* update_excel_data *)

\* UpdateExcelData without the call of blank_worksheet
UpdateExcelDataNoBlank ==
    \E sheet_name \in ArgNames, n_col \in 0..MaxCols, n_data \in 0..MaxUpdRows :
        /\ nextId <= MaxId
        /\ Enter([NoArgs EXCEPT !.op = "update_excel_data", !.sheet_name = sheet_name,
                                !.create_new_ws = update_create_new_ws,
                                !.n_col = n_col, !.n_data = n_data,
                                !.ws_id = id_of(sheets, sheet_name), !.k = 1])
        /\ pc' = "upd_get_ws"
        /\ UNCHANGED <<sheets, nextId, fr, calls, writes, result, n0, n, string>>

\* update_excel_data is called; get_workbook_instance hands it the workbook
\* and it calls blank_worksheet(wb_instance, sheet_name, create_new_ws=True)
UpdateExcelData ==
    \E sheet_name \in ArgNames, n_col \in 0..MaxCols, n_data \in 0..MaxUpdRows :
        /\ nextId <= MaxId
        /\ Enter([NoArgs EXCEPT !.op = "update_excel_data", !.sheet_name = sheet_name,
                                !.create_new_ws = update_create_new_ws,
                                !.n_col = n_col, !.n_data = n_data,
                                !.ws_id = id_of(sheets, sheet_name), !.k = 1])
        /\ pc' = "blank"
        /\ UNCHANGED <<sheets, nextId, fr, calls, writes, result, n0, n, string>>

\* ws_instance = wb_instance.get_worksheet(sheet_name), which raises when no
\* worksheet has the name; then __df_to_excel(df, ws_instance) starts with the
\* default chunk
UpdGetWorksheet ==
    /\ pc = "upd_get_ws"
    /\ IF worksheet_is_exist(sheets, args.sheet_name)
       THEN /\ fr' = df_locals(id_of(sheets, args.sheet_name), args.n_col, args.n_data,
                               DefaultChunk)
            /\ pc' = "df_write"
            /\ result' = result
       ELSE /\ fr' = fr
            /\ pc' = "ret"
            /\ result' = "error"
    /\ UNCHANGED <<sheets, nextId, args, calls, writes, pre, n0, n, string>>

\* where __df_to_excel goes after a call of __insert_data returned
after_write(f, op) ==
    IF df_more(f) THEN "df_write"
    ELSE IF op = "update_excel_data" THEN "upd_autofit" ELSE "ret"

\* __insert_data: the remote takes the update
InsertDataOk ==
    /\ pc = "df_write"
    /\ range_accepts(df_next_insert(fr))
    /\ LET w == df_next_insert(fr)
           k == pos_of(sheets, fr.ws_id)
       IN  /\ sheets' = [sheets EXCEPT ![k].cells = range_update(@, w)]
           /\ writes' = Append(writes, [addr |-> w.addr, values |-> w.values, ok |-> TRUE])
    /\ fr' = after_insert(fr)
    /\ pc' = after_write(after_insert(fr), args.op)
    /\ result' = IF after_write(after_insert(fr), args.op) = "ret" THEN "ok" ELSE result
    /\ UNCHANGED <<nextId, args, calls, pre, n0, n, string>>

\* InsertDataFail with the error caught and the loop going on
InsertDataFailCaught ==
    /\ pc = "df_write"
    /\ LET w == df_next_insert(fr)
       IN  writes' = Append(writes, [addr |-> w.addr, values |-> w.values, ok |-> FALSE])
    /\ fr' = after_insert(fr)
    /\ pc' = after_write(after_insert(fr), args.op)
    /\ result' = IF after_write(after_insert(fr), args.op) = "ret" THEN "ok" ELSE result
    /\ UNCHANGED <<sheets, nextId, args, calls, pre, n0, n, string>>

\* __insert_data: the remote call raises (the address or the values refused,
\* or the request failed); __df_to_excel catches nothing
InsertDataFail ==
    /\ pc = "df_write"
    /\ LET w == df_next_insert(fr)
       IN  writes' = Append(writes, [addr |-> w.addr, values |-> w.values, ok |-> FALSE])
    /\ pc' = "ret"
    /\ result' = "error"
    /\ UNCHANGED <<sheets, nextId, args, fr, calls, pre, n0, n, string>>

\* self.auto_fit_columns(excel_file_path, sheet_name): formats, no value changes
AutoFitColumns ==
    /\ pc = "upd_autofit"
    /\ pc' = "ret"
    /\ result' = "ok"
    /\ UNCHANGED <<sheets, nextId, args, fr, calls, writes, pre, n0, n, string>>

Next ==
    \/ CreateWorksheet
    \/ RenameWorksheet
    \/ DeleteWorksheet
    \/ BlankWorksheet
    \/ BlankRename
    \/ BlankCreate
    \/ BlankDelete
    \/ BlankClear
    \/ BlankCreateMissing
    \/ UpdateExcelData
    \/ UpdGetWorksheet
    \/ InsertDataOk
    \/ InsertDataFail
    \/ AutoFitColumns
    \/ Return

Spec == Init /\ [][Next]_vars

----------------------------------------------------------------------------
(* __df_to_excel on its own: any table within the bounds, any chunk, on the *)
(* worksheet update_excel_data hands it (just blanked)                      *)

InitWriter ==
    \E n_col \in 0..MaxCols, n_data \in 0..MaxDataRows, chunk \in 1..MaxChunk :
        /\ sheets = <<new_worksheet(1, "Data")>>
        /\ nextId = 2
        /\ pc = "df_write"
        /\ args = [NoArgs EXCEPT !.op = "df_to_excel", !.sheet_name = "Data",
                                 !.n_col = n_col, !.n_data = n_data, !.ws_id = 1]
        /\ fr = df_locals(1, n_col, n_data, chunk)
        /\ calls = <<>>
        /\ writes = <<>>
        /\ result = "none"
        /\ pre = sheets
        /\ HeaderIdle

NextWriter ==
    \/ InsertDataOk
    \/ InsertDataFail

SpecWriter == InitWriter /\ [][NextWriter]_vars

----------------------------------------------------------------------------
(* __convert_header_name on its own, one pass of its loop at a time *)

InitHeader ==
    /\ n0 \in 0..MaxIndex
    /\ n = n0
    /\ string = <<>>
    /\ pc = "hdr_loop"
    /\ sheets = <<new_worksheet(1, "Data")>>
    /\ nextId = 2
    /\ args = NoArgs
    /\ fr = NoFrame
    /\ calls = <<>>
    /\ writes = <<>>
    /\ result = "none"
    /\ pre = <<>>

\* while n > 0: one pass
HeaderLoop ==
    /\ pc = "hdr_loop"
    /\ n > 0
    /\ n' = header_step(n, string).n
    /\ string' = header_step(n, string).string
    /\ UNCHANGED <<sheets, nextId, pc, args, fr, calls, writes, result, pre, n0>>

\* the loop is left: return string
HeaderReturn ==
    /\ pc = "hdr_loop"
    /\ ~(n > 0)
    /\ pc' = "hdr_done"
    /\ UNCHANGED <<sheets, nextId, args, fr, calls, writes, result, pre, n0, n, string>>

NextHeader ==
    \/ HeaderLoop
    \/ HeaderReturn

SpecHeader == InitHeader /\ [][NextHeader]_vars

----------------------------------------------------------------------------
(* Definitions the properties below are stated with *)

RECURSIVE Pow(_, _)
Pow(b, e) == IF e = 0 THEN 1 ELSE b * Pow(b, e - 1)

\* the cells of a worksheet holding exactly rows 1..n_rows of the table
TableCells(n_col, n_rows) == {<<r, c, <<r, c>>>> : r \in 1..n_rows, c \in 1..n_col}

\* the cells of the worksheet with that id
CellsOf(id) == sheets[pos_of(sheets, id)].cells

\* the row range of the j-th __insert_data call
RowRange(j) == <<writes[j].addr.row_start, writes[j].addr.row_end>>

\* the row ranges __df_to_excel issues when no call raises, in order
RECURSIVE df_plan(_)
df_plan(f) ==
    IF df_more(f)
    THEN <<<<f.row_start, next_row_end(f)>>>> \o df_plan(after_insert(f))
    ELSE <<>>

df_ranges(n_row, chunk) == df_plan(df_locals(None, 1, n_row - 1, chunk))

\* __df_to_excel is running or has just ended
InWriter == pc \in {"df_write", "upd_autofit", "ret"} /\ fr.ws_id # None

\* __df_to_excel made all its calls and none raised
WriterDone == InWriter /\ pc # "df_write" /\ result # "error"

----------------------------------------------------------------------------
(* C4 *)

\* C4: __convert_header_name is the bijective base-26 labelling. Through the
\* loop the letters found so far and the rest of n add up to the argument,
\* every letter is one of A..Z, and the passes made plus n never exceed the
\* argument (so the loop ends); the string returned reads, with A=1..Z=26 in
\* base 26, as the argument, is empty exactly for 0, and is "A", "Z", "AA",
\* "ZZ", "AAA" for 1, 26, 27, 702, 703.
C4_BijectiveBase26 ==
    pc \in {"hdr_loop", "hdr_done"} =>
        /\ n >= 0
        /\ LabelValue(string) + n * Pow(Base, Len(string)) = n0
        /\ \A k \in 1..Len(string) : LetterDigit(string[k]) \in 1..Base
        /\ Len(string) + n <= n0
        /\ pc = "hdr_done" =>
            /\ LabelValue(string) = n0
            /\ (string = <<>>) <=> (n0 = 0)
            /\ string = convert_header_name(n0)
            /\ n0 = 1 => string = <<"A">>
            /\ n0 = 26 => string = <<"Z">>
            /\ n0 = 27 => string = <<"A", "A">>
            /\ n0 = 702 => string = <<"Z", "Z">>
            /\ n0 = 703 => string = <<"A", "A", "A">>

C4_Witness == pc = "hdr_done" /\ n0 = 703 /\ string = <<"A", "A", "A">>

----------------------------------------------------------------------------
(* C1 *)

\* C1: the row ranges __df_to_excel passes to __insert_data, in the order
\* issued, start at row 1 and each starts one row after the one before ends;
\* when all calls were made without error they are pairwise disjoint, cover
\* exactly 1..n_row, and are as many as the least q with q * chunk >= n_row.
\* 2501 rows with chunk 1000 give 1-1000, 1001-2000, 2001-2501; 6 rows give
\* 1-6; the header alone gives 1-1.
C1_RangesPartitionRows ==
    /\ InWriter =>
        /\ writes # <<>> => RowRange(1)[1] = 1
        /\ \A j \in 2..Len(writes) : RowRange(j)[1] = RowRange(j - 1)[2] + 1
        /\ WriterDone =>
            /\ UNION {RowRange(j)[1]..RowRange(j)[2] : j \in 1..Len(writes)} = 1..fr.n_row
            /\ \A j, k \in 1..Len(writes) :
                   j # k => (RowRange(j)[1]..RowRange(j)[2]) \cap
                            (RowRange(k)[1]..RowRange(k)[2]) = {}
            /\ \A j \in 1..Len(writes) : RowRange(j)[1] <= RowRange(j)[2]
            /\ Len(writes) * fr.chunk >= fr.n_row
            /\ (Len(writes) - 1) * fr.chunk < fr.n_row
            /\ [j \in 1..Len(writes) |-> RowRange(j)] = df_ranges(fr.n_row, fr.chunk)
    /\ df_ranges(2501, DefaultChunk) = << <<1, 1000>>, <<1001, 2000>>, <<2001, 2501>> >>
    /\ df_ranges(6, DefaultChunk) = << <<1, 6>> >>
    /\ df_ranges(1, DefaultChunk) = << <<1, 1>> >>

C1_Witness ==
    /\ WriterDone
    /\ fr.n_row = 7 /\ fr.chunk = 3
    /\ [j \in 1..Len(writes) |-> RowRange(j)] = << <<1, 3>>, <<4, 6>>, <<7, 7>> >>

----------------------------------------------------------------------------
(* C8 *)

\* C8: every __insert_data call __df_to_excel issues, taken by the remote or
\* not, has 1 <= row_start <= row_end <= n_row and at most chunk rows; when
\* n_row is a multiple of chunk and more than one chunk, every call of a
\* finished write is a full chunk.
C8_RangesWellFormed ==
    InWriter =>
        /\ \A j \in 1..Len(writes) :
            /\ 1 <= RowRange(j)[1]
            /\ RowRange(j)[1] <= RowRange(j)[2]
            /\ RowRange(j)[2] <= fr.n_row
            /\ RowRange(j)[2] - RowRange(j)[1] + 1 <= fr.chunk
        /\ (WriterDone /\ fr.n_row % fr.chunk = 0) =>
            \A j \in 1..Len(writes) : RowRange(j)[2] - RowRange(j)[1] + 1 = fr.chunk

C8_Witness ==
    /\ WriterDone
    /\ fr.n_row = 6 /\ fr.chunk = 3
    /\ Len(writes) = 2 /\ RowRange(2) = <<4, 6>>

----------------------------------------------------------------------------
(* C2 *)

\* C2: each __insert_data call carries exactly the rows row_start..row_end of
\* data, in order; when every call succeeded, sheet row r holds data row r
\* for every r in 1..n_row, nothing else is on the sheet, and each sheet row
\* was written by exactly one call.
C2_RowsInOrderOnce ==
    InWriter =>
        /\ \A j \in 1..Len(writes) :
            /\ Len(writes[j].values) = RowRange(j)[2] - RowRange(j)[1] + 1
            /\ \A i \in 1..Len(writes[j].values) :
                   writes[j].values[i] = [c \in 1..fr.n_col |-> <<RowRange(j)[1] + i - 1, c>>]
        /\ WriterDone =>
            /\ CellsOf(fr.ws_id) = TableCells(fr.n_col, fr.n_row)
            /\ \A r \in 1..fr.n_row :
                   Cardinality({j \in 1..Len(writes) :
                       RowRange(j)[1] <= r /\ r <= RowRange(j)[2]}) = 1

C2_Witness ==
    /\ WriterDone
    /\ fr.n_col = 2 /\ fr.n_row = 5 /\ fr.chunk = 2
    /\ Len(writes) = 3
    /\ CellsOf(fr.ws_id) = TableCells(2, 5)

----------------------------------------------------------------------------
(* C7 *)

\* C7: a call that raised is the last call __df_to_excel made (no later
\* chunk, no second try), the write has ended with the error, and the
\* worksheet holds exactly the rows of the calls before it.
C7_FailureAborts ==
    InWriter =>
        /\ \A j \in 1..Len(writes) :
               ~writes[j].ok =>
                   /\ j = Len(writes)
                   /\ pc = "ret" /\ result = "error"
                   /\ CellsOf(fr.ws_id) =
                          TableCells(fr.n_col, IF j = 1 THEN 0 ELSE RowRange(j - 1)[2])
        /\ result = "error" => writes # <<>> /\ ~writes[Len(writes)].ok

C7_Witness ==
    /\ InWriter /\ result = "error"
    /\ fr.n_row = 7 /\ fr.chunk = 3 /\ fr.n_col = 2
    /\ Len(writes) = 2
    /\ CellsOf(fr.ws_id) = TableCells(2, 3)

----------------------------------------------------------------------------
(* C10 *)

\* C10: __df_to_excel never issues a range write whose end column is the
\* empty label of a table without columns: every address it passes on has a
\* non-empty end column at or after column A.
C10_NoEmptyEndColumn ==
    \A j \in 1..Len(writes) :
        /\ writes[j].addr.col_end # <<>>
        /\ LabelValue(writes[j].addr.col_start) <= LabelValue(writes[j].addr.col_end)

----------------------------------------------------------------------------
(* C3 *)

\* the ids of the worksheets of a workbook
IdsOf(wb) == {wb[k].id : k \in 1..Len(wb)}

\* the calls issued, by name
Kinds == [j \in 1..Len(calls) |-> calls[j].call]

\* blank_worksheet has made its calls and none raised
BlankDone ==
    \/ pc \in {"upd_get_ws", "df_write", "upd_autofit"}
    \/ pc = "ret" /\ (result = "ok" \/ writes # <<>>)

\* C3: in update_excel_data no range write is issued while blank_worksheet
\* runs; when the first is about to be issued the worksheet it goes to is the
\* one named sheet_name and holds no cell; no cell of a written worksheet
\* holds a value from before the call; and after a successful call the
\* worksheet named sheet_name holds exactly the table's header and rows.
C3_UpdateReplacesContents ==
    args.op = "update_excel_data" =>
        /\ pc \in {"blank", "upd_get_ws"} => writes = <<>>
        /\ (pc = "df_write" /\ writes = <<>>) =>
            /\ id_of(sheets, args.sheet_name) = fr.ws_id
            /\ CellsOf(fr.ws_id) = {}
        /\ writes # <<>> => \A t \in CellsOf(fr.ws_id) : t[3] # "old"
        /\ (pc = "ret" /\ result = "ok") =>
            /\ worksheet_is_exist(sheets, args.sheet_name)
            /\ id_of(sheets, args.sheet_name) = fr.ws_id
            /\ CellsOf(fr.ws_id) = TableCells(args.n_col, args.n_data + 1)

C3_Witness ==
    /\ args.op = "update_excel_data" /\ pc = "ret" /\ result = "ok"
    /\ Len(pre) = 1 /\ pre[1].name = args.sheet_name /\ pre[1].cells = OldCells
    /\ args.n_col = 2 /\ args.n_data = 1
    /\ CellsOf(id_of(sheets, args.sheet_name)) = TableCells(2, 2)

----------------------------------------------------------------------------
(* C5 *)

\* C5: blank_worksheet with create_new_ws on an existing worksheet issues
\* rename-to-temp, then the creation under the original name, then the
\* deletion of the temp worksheet, in that order: a deletion comes after a
\* creation and finds at least two worksheets, and the workbook holds a
\* worksheet in every state between the calls, also when the worksheet is
\* the only one of the workbook.
C5_RenameCreateDelete ==
    (args.op \in {"blank_worksheet", "update_excel_data"}
        /\ args.ws_id # None /\ args.create_new_ws) =>
        /\ Len(sheets) >= 1
        /\ Len(calls) <= 3
        /\ Kinds = SubSeq(<<"rename", "add", "delete">>, 1, Len(calls))
        /\ \A j \in 1..Len(calls) :
            /\ calls[j].call = "rename" =>
                   calls[j].id = args.ws_id /\ calls[j].name = temp_name(args.sheet_name)
            /\ calls[j].call = "add" => calls[j].name = args.sheet_name
            /\ calls[j].call = "delete" =>
                /\ calls[j].id = args.ws_id
                /\ calls[j].count >= 2
                /\ \E i \in 1..(j - 1) : calls[i].call = "add"
        /\ BlankDone => Len(calls) = 3

C5_Witness ==
    /\ args.op = "blank_worksheet" /\ args.create_new_ws
    /\ pc = "ret" /\ result = "ok"
    /\ Len(pre) = 1 /\ pre[1].name = args.sheet_name
    /\ Kinds = <<"rename", "add", "delete">>
    /\ Len(sheets) = 1

----------------------------------------------------------------------------
(* C6 *)

\* C6: from a workbook with a worksheet, whatever create_worksheet,
\* rename_worksheet, delete_worksheet and blank_worksheet calls are made, the
\* workbook holds a worksheet; every remote delete was issued for a worksheet
\* of the workbook when it held more than one, and delete_worksheet issues
\* one exactly when the named worksheet exists and is not the only one.
C6_NeverDeletesLastWorksheet ==
    /\ Len(sheets) >= 1
    /\ \A j \in 1..Len(calls) :
           calls[j].call = "delete" => calls[j].count > 1
    /\ (args.op = "delete_worksheet" /\ pc = "ret") =>
        /\ result = "ok"
        /\ IF worksheet_is_exist(pre, args.sheet_name) /\ Len(pre) > 1
           THEN /\ Kinds = <<"delete">>
                /\ calls[1].id = id_of(pre, args.sheet_name)
                /\ IdsOf(sheets) = IdsOf(pre) \ {calls[1].id}
           ELSE calls = <<>> /\ sheets = pre

C6_Witness ==
    /\ args.op = "delete_worksheet" /\ pc = "ret"
    /\ Len(pre) = 1 /\ pre[1].name = args.sheet_name
    /\ calls = <<>> /\ sheets = pre

----------------------------------------------------------------------------
(* C9 *)

\* C9: after blank_worksheet returned: on an existing worksheet with
\* create_new_ws the worksheet named sheet_name has an id the workbook did not
\* have, holds no cell, and the old worksheet is gone, the others as they
\* were; without create_new_ws the workbook is as it was but for the cells of
\* that worksheet, which are cleared, and only the clear was issued; with no
\* worksheet of the name, one was added under it and nothing else changed.
C9_BlankIdentity ==
    (args.op = "blank_worksheet" /\ pc = "ret" /\ result = "ok") =>
        IF args.ws_id # None /\ args.create_new_ws
        THEN /\ id_of(sheets, args.sheet_name) \notin IdsOf(pre) \cup {None}
             /\ CellsOf(id_of(sheets, args.sheet_name)) = {}
             /\ args.ws_id \notin IdsOf(sheets)
             /\ ~worksheet_is_exist(sheets, temp_name(args.sheet_name))
             /\ SelectSeq(sheets, LAMBDA ws : ws.id # id_of(sheets, args.sheet_name))
                    = SelectSeq(pre, LAMBDA ws : ws.id # args.ws_id)
        ELSE IF args.ws_id # None
        THEN /\ id_of(sheets, args.sheet_name) = args.ws_id
             /\ sheets = [pre EXCEPT ![get_worksheet(pre, args.sheet_name)].cells = {}]
             /\ Kinds = <<"clear">>
        ELSE /\ Kinds = <<"add">>
             /\ Len(sheets) = Len(pre) + 1
             /\ SubSeq(sheets, 1, Len(pre)) = pre
             /\ sheets[Len(sheets)].name = args.sheet_name
             /\ sheets[Len(sheets)].id \notin IdsOf(pre)

C9_Witness ==
    /\ args.op = "blank_worksheet" /\ pc = "ret" /\ result = "ok"
    /\ args.ws_id # None /\ args.create_new_ws
    /\ Len(pre) = 2 /\ pre[get_worksheet(pre, args.sheet_name)].cells = OldCells
    /\ id_of(sheets, args.sheet_name) # args.ws_id

====
